---- MODULE Spec2Model ----
(***************************************************************************)
(* A model of the levanter training core:                                  *)
(*   - accumulate_gradients / accumulate_gradients_sharded                 *)
(*     (src/src/levanter/modeling_utils.py),                               *)
(*   - the training loop of train_lm.main                                  *)
(*     (src/src/levanter/main/train_lm.py),                                *)
(*   - the two-phase loop of instruction_tune.main                         *)
(*     (src/projects/instruction_tuning/instruction_tune.py).              *)
(* SpecAcc runs the accumulator on bounded inputs; Spec runs the loops.    *)
(***************************************************************************)
EXTENDS Integers, Sequences, FiniteSets, TLC

\* ------------------------------------------------------------------ bounds
MaxB == 8          \* largest logical batch size fed to the accumulator
MaxD == 2          \* largest data_axis_size
MaxP == 2          \* largest per_device_parallelism
MaxSteps == 4      \* largest num_train_steps
MaxEvery == 2      \* largest hook / checkpoint cadence
MaxRestarts == 1   \* how often the process is killed (or has exited) and is launched again
DataLen == 3       \* batches in one pass over the training loader
TrainBatchSize == 2 \* train_batch_size

\* TrainLmConfig.hf_save_steps
HfSaveSteps == 10000

\* Python's None, and Some(x) for a value that is present
None == <<>>

Some(x) == <<x>>

\* a Python local that has not been assigned yet
Unbound == "Unbound"

\* ------------------------------------------------------------- arithmetic
RECURSIVE GCD(_, _)
GCD(a, b) == IF b = 0 THEN a ELSE GCD(b, a % b)

\* exact quotient n/d (d > 0, n >= 0) as a normalised pair <<numerator, denominator>>
Rat(n, d) ==
    LET g == GCD(n, d) IN <<n \div g, d \div g>>

RatAdd(r, s) == Rat(r[1] * s[2] + s[1] * r[2], r[2] * s[2])

RatDiv(r, k) == Rat(r[1], r[2] * k)

\* r - s; the numerator carries the sign
RatSub(r, s) == Rat(r[1] * s[2] - s[1] * r[2], r[2] * s[2])

RECURSIVE RatSum(_, _)
RatSum(rs, i) == IF i > Len(rs) THEN <<0, 1>> ELSE RatAdd(rs[i], RatSum(rs, i + 1))

VARIABLES
    a_pc,        \* position inside accumulate_gradients_sharded
    a_args,      \* its arguments: f, inputs (examples, keys), data_axis_size, per_device_parallelism
    a_inputs,    \* inputs after the "mass reshape" (Unbound before)
    a_vmapped,   \* per-row (losses, grads) returned by the vmapped accumulate_gradients
    a_calls,     \* instrumentation: the <<example, key>> pairs f was invoked on, in order
    a_result,    \* the returned (loss, grads), Unbound until returned
    a_ctx        \* the ambient axis mapping: the stack of scopes, and what was active when

VARIABLES
    cfg,         \* the configuration the process is launched with (never changes)
    disk,        \* checkpoint storage: Some(latest checkpoint written), None when empty
    restarts,    \* how many times the process has been launched again
    mem,         \* the local variables of main(): pc, model, opt_state, training_key, step, ...
    log          \* instrumentation: hook calls, saves, dispatched StepInfos, key splits, sub-step events

VARIABLES
    running_mean, \* a RunningMean instance: its fields mean and count
    rm_xs         \* instrumentation: the values update was called with, in order

rmVars == <<running_mean, rm_xs>>

accVars == <<a_pc, a_args, a_inputs, a_vmapped, a_calls, a_result, a_ctx>>

loopVars == <<cfg, disk, restarts, mem, log>>

vars == <<a_pc, a_args, a_inputs, a_vmapped, a_calls, a_result, a_ctx,
          cfg, disk, restarts, mem, log, running_mean, rm_xs>>

\* ---------------------------------------------------------------------
\* The loss-and-gradient functions f(model, example, key) -> (loss, grad)
\* the accumulator is exercised with; the model argument is fixed.
FKinds == {"id", "mix"}

f(fk, ex, key) ==
    IF fk = "id" THEN <<ex, ex>> ELSE <<ex * key, ex + 2 * key>>

\* ------------------------------------------------- accumulate_gradients
zero == [loss |-> 0, grad |-> 0, n |-> 0, calls |-> <<>>]

compute_and_accumulate(fk, acc, input) ==
    LET lg == f(fk, input[1], input[2]) IN
    [loss |-> lg[1] + acc.loss, grad |-> acc.grad + lg[2], n |-> acc.n + 1,
     calls |-> Append(acc.calls, input)]

\* levanter.jax_utils.reduce: a left fold over the leading axis of the inputs
RECURSIVE reduce(_, _, _, _)
reduce(fk, acc, inputs, t) ==
    IF t > Len(inputs) THEN acc
    ELSE reduce(fk, compute_and_accumulate(fk, acc, inputs[t]), inputs, t + 1)

\* a variant that returns the running total without dividing by total_n
ScaleByTotalN_NoDivide(total, total_n) == Rat(total, 1)

ScaleByTotalN(total, total_n) == Rat(total, total_n)

\* inputs: a sequence (leading axis) of <<example, key>> pairs
accumulate_gradients(fk, inputs) ==
    LET tot == reduce(fk, zero, inputs, 1) IN
    [loss |-> ScaleByTotalN(tot.loss, tot.n), grad |-> ScaleByTotalN(tot.grad, tot.n),
     calls |-> tot.calls]

\* ------------------------------------------------------- axis mappings
\* a ResourceMapping: logical axis name -> mesh axis, "replicated" when unmapped
Axes == {"batch", "embed", "microbatch"}

NoMapping == [a \in Axes |-> "replicated"]

compute_axis_mapping == [NoMapping EXCEPT !["batch"] = "data"]

parameter_axis_mapping == [NoMapping EXCEPT !["batch"] = "data", !["embed"] = "data"]

\* {Microbatch.name: ResourceAxis.DATA}
MicrobatchMapping == [NoMapping EXCEPT !["microbatch"] = "data"]

\* the mappings that can be active when accumulate_gradients_sharded is entered
EntryMappings == {NoMapping, [NoMapping EXCEPT !["embed"] = "model", !["microbatch"] = "model"]}

\* the entries of new override those of old
Merge(old, new) == [a \in Axes |-> IF new[a] # "replicated" THEN new[a] ELSE old[a]]

NewCtx(entry) ==
    [entry |-> entry, stack |-> <<entry>>, trace |-> <<>>, at_f |-> {}, at_mean |-> {}]

Active(ctx) == ctx.stack[Len(ctx.stack)]

\* entering `with hax.axis_mapping(mapping, merge=...)`: the active mapping is
\* replaced by the mapping, or by the active one overridden with it
axis_mapping_enter(ctx, scope, mapping, merge) ==
    [ctx EXCEPT !.stack = Append(@, IF merge THEN Merge(Active(ctx), mapping) ELSE mapping),
                !.trace = Append(@, <<"enter", scope>>)]

\* leaving the scope, by its end or by an exception: the mapping that was active
\* before is active again
axis_mapping_exit(ctx, scope) ==
    [ctx EXCEPT !.stack = SubSeq(@, 1, Len(@) - 1),
                !.trace = Append(@, <<"exit", scope>>)]

\* a variant of line 92 that merges with the mapping active at entry
ComputeScopeMerge_True == TRUE

\* line 92: hax.axis_mapping(compute_axis_mapping, merge=False)
ComputeScopeMerge == FALSE

\* ------------------------------------------ accumulate_gradients_sharded
batch_size(args) == Len(args.examples)

microbatch_size(args) == args.data_axis_size * args.per_device_parallelism

num_micro_steps(args) == batch_size(args) \div microbatch_size(args)

\* a variant whose comparison accepts a batch with a remainder
DivisibilityAssert_Lax(args) ==
    num_micro_steps(args) * microbatch_size(args) <= batch_size(args)

\* the assertion of line 89
DivisibilityAssert(args) ==
    num_micro_steps(args) * microbatch_size(args) = batch_size(args)

\* x.reshape((microbatch_size, num_micro_steps) + x.shape[1:]): row-major,
\* element [m][t] of the result is x[(m-1) * num_micro_steps + t]
reshape(x, mb, n) ==
    [m \in 1..mb |-> [t \in 1..n |-> x[(m - 1) * n + t]]]

\* tree_map(_reshape, inputs) over the two input arrays
ReshapeInputs(args) ==
    LET mb == microbatch_size(args)
        n == num_micro_steps(args) IN
    [examples |-> reshape(args.examples, mb, n), keys |-> reshape(args.keys, mb, n)]

\* hax.vmap(accumulate_gradients, axis=Microbatch)(f, model, *inputs):
\* one accumulate_gradients per index of the leading (microbatch) axis
VmapAccumulate(fk, inputs) ==
    [m \in 1..Len(inputs.examples) |->
        accumulate_gradients(fk,
            [t \in 1..Len(inputs.examples[m]) |->
                <<inputs.examples[m][t], inputs.keys[m][t]>>])]

\* a variant that sums over the microbatch axis instead of averaging
MeanOverMicrobatch_Sum(rs) == RatSum(rs, 1)

\* hax.mean(grads, axis=Microbatch) and jnp.mean(losses)
MeanOverMicrobatch(rs) == RatDiv(RatSum(rs, 1), Len(rs))

ReduceGrads(vm) ==
    [loss |-> MeanOverMicrobatch([m \in 1..Len(vm) |-> vm[m].loss]),
     grad |-> MeanOverMicrobatch([m \in 1..Len(vm) |-> vm[m].grad])]

RECURSIVE Concat(_, _)
Concat(ss, i) == IF i > Len(ss) THEN <<>> ELSE ss[i] \o Concat(ss, i + 1)

\* the whole function, as the composition its body performs
accumulate_gradients_sharded(args) ==
    ReduceGrads(VmapAccumulate(args.f, ReshapeInputs(args)))

\* =====================================================================
\* The training loops
\* =====================================================================
\* ---------------------------------------------------------------- RNG keys
\* a key is the path of splits that derived it from the seed
PRNGKey(seed) == <<seed>>

\* jax.random.split(key, n): n child keys
split(key, n) == [i \in 1..n |-> Append(key, i)]

\* a variant that keeps the parent key as the carried training_key
SplitTrainingKey_KeepParent(training_key) ==
    [my_key |-> split(training_key, 2)[1], training_key |-> training_key]

\* my_key, training_key = jrandom.split(training_key, 2)
SplitTrainingKey(training_key) ==
    [my_key |-> split(training_key, 2)[1], training_key |-> split(training_key, 2)[2]]

\* global_key_array(my_key, train_batch_size, ...): one key per example of the
\* batch, derived from the step's key
per_example_keys(my_key) == split(my_key, TrainBatchSize)

\* train_lm's train_step(model, opt_state, example, my_key): the keys handed to the
\* accumulator are the one key of the step (key=key)
train_step_keys(my_key) == <<my_key>>

\* ------------------------------------------------------------ data pipeline
\* non_caching_cycle(loader): the batch served by the n-th next() (n from 0)
CycleBatch(n) == <<"A", n % DataLen>>

\* a variant that discards one batch too few
SeekCount_OffByOne(resume_step) == resume_step

\* range(resume_step + 1): how many batches the seek loop discards
SeekCount(resume_step) == resume_step + 1

\* ------------------------------------------------------ model and optimizer
\* a model is its initialisation and the updates applied since, an update being
\* determined by the batch and the key it was computed from
\* and it is stored in a dtype
InitModel(how, dtype) == [init |-> how, upd |-> <<>>, dtype |-> dtype]

\* the dtypes a stored model can be in: the parameter dtype of the precision
\* policy, or another one
Dtypes == {"parameter", "other"}

\* mp.cast_to_param(model)
cast_to_param(model) == [model EXCEPT !.dtype = "parameter"]

\* optimizer.init(model): the state mirrors the model
OptInit(model) == [init |-> model.init, upd |-> <<>>, dtype |-> model.dtype]

\* the loss of the step: a function of the model, the batch and the key
LossOf(model, example, key) == [model |-> model, example |-> example, key |-> key]

\* the gradient of the step: a function of the model, the batch and the key
GradOf(model, example, key) == <<example, key>>

\* optimizer.update followed by eqx.apply_updates
ApplyUpdates(model, grads) == [model EXCEPT !.upd = Append(@, grads)]

OptUpdate(opt_state, grads) == [opt_state EXCEPT !.upd = Append(@, grads)]

StepInfo(step, model, opt_state, loss, training_key) ==
    [step |-> step, model |-> model, opt_state |-> opt_state, loss |-> loss,
     training_key |-> training_key]

\* ------------------------------------------------------- checkpoint manager
\* on_step saves when the cadence is met or force is set
ShouldSave(info, force) == force \/ info.step % cfg.save_every = 0

\* save(step_info, tag): the snapshot becomes the latest one on storage
Snapshot(info) ==
    [step |-> info.step, model |-> info.model, opt_state |-> info.opt_state,
     training_key |-> info.training_key]

\* st is [disk, log]; a save replaces the latest checkpoint and is logged
save_checkpoint(st, info, tag, force) ==
    [disk |-> Some(Snapshot(info)),
     log |-> [st.log EXCEPT !.saves = Append(@, [step |-> info.step, tag |-> tag,
                                                   force |-> force, info |-> info])]]

checkpointer_on_step(st, info, force) ==
    IF ShouldSave(info, force)
    THEN save_checkpoint(st, info, <<"step", info.step>>, force)
    ELSE st

\* ----------------------------------------------------------- hook dispatcher
Hook(fn, every) == [fn |-> fn, every |-> every]

\* the hooks train_lm registers, in registration order
TrainLmHooks(c) ==
    <<Hook("pbar_logger", 1), Hook("log_to_wandb", 1), Hook("log_performance_stats", 1),
      Hook("compute_validation_loss", c.steps_per_eval),
      Hook("wandb_xla_logger", c.steps_per_eval),
      Hook("checkpointer.on_step", 1)>>
    \o (IF c.hf_save_path THEN <<Hook("save_hf_checkpoint_callback", HfSaveSteps)>> ELSE <<>>)
    \o <<Hook("compute_and_visualize_log_probs", c.steps_per_eval)>>

\* the hooks instruction_tune registers, in registration order
InstructionTuneHooks(c) ==
    <<Hook("pbar_logger", 1), Hook("log_to_wandb", 1), Hook("log_performance_stats", 1),
      Hook("wandb_xla_logger", c.steps_per_eval),
      Hook("checkpointer.on_step", 1)>>

\* one callback invocation: it is logged, and the checkpointer's on_step acts
CallHook(st, fn, info, force, via) ==
    LET logged == [st EXCEPT !.log.hook_log =
                      Append(@, [fn |-> fn, step |-> info.step, via |-> via, info |-> info]),
                                 !.log.events = Append(@, fn)] IN
    IF fn = "checkpointer.on_step" THEN checkpointer_on_step(logged, info, force) ELSE logged

Due(hook, info, force) == force \/ info.step % hook.every = 0

RECURSIVE run_hooks_from(_, _, _, _, _)
run_hooks_from(st, hooks, i, info, force) ==
    IF i > Len(hooks) THEN st
    ELSE run_hooks_from(IF Due(hooks[i], info, force)
                        THEN CallHook(st, hooks[i].fn, info, FALSE, "run_hooks")
                        ELSE st,
                        hooks, i + 1, info, force)

\* run_hooks(info, force): every due callback, in registration order; the
\* callbacks receive the StepInfo only
run_hooks(st, hooks, info, force) ==
    run_hooks_from([st EXCEPT !.log.dispatches =
                       Append(@, [step |-> info.step, force |-> force, info |-> info])],
                   hooks, 1, info, force)

\* ------------------------------------------------------------ configurations
Seeds == {0, 1}

\* ul2r_phase_fraction as <<numerator, denominator>>
Fractions == {<<0, 1>>, <<1, 2>>, <<1, 1>>}

\* instruction_weight in halves: 0, 1/2, 1
Weights == {0, 1, 2}

\* the stream prng.uniform() yields for the itune_key of the seed, in halves
\* (0 stands for a draw below 1/2, 1 for a draw of at least 1/2)
PrngStreams == [1..MaxSteps -> {0, 1}]

NoStream == [i \in 1..MaxSteps |-> 0]

DefaultCfg ==
    [prog |-> "idle", seed |-> 0, num_train_steps |-> 0, steps_per_eval |-> 1,
     save_every |-> 1, hf_save_path |-> FALSE, initialize_from_hf |-> FALSE,
     ul2r_phase_fraction |-> <<0, 1>>, instruction_weight |-> 0, prng |-> NoStream,
     itune_batches |-> 0, hf_dtype |-> "parameter"]

\* hf_dtype is the dtype the pretrained checkpoint is stored in; it matters only
\* when the model is initialized from one
TrainLmCfgs ==
    UNION { { [DefaultCfg EXCEPT !.prog = "train_lm", !.seed = s, !.num_train_steps = n,
                                 !.steps_per_eval = e, !.save_every = c,
                                 !.hf_save_path = h, !.initialize_from_hf = i,
                                 !.hf_dtype = dt] :
                dt \in (IF i THEN Dtypes ELSE {"parameter"}) } :
            s \in Seeds, n \in 0..MaxSteps, e \in 1..MaxEvery, c \in 1..MaxEvery,
            h \in BOOLEAN, i \in BOOLEAN }

ItuneCfg(s, n, e, c, fr, w, ps, ib) ==
    [DefaultCfg EXCEPT !.prog = "instruction_tune", !.seed = s, !.num_train_steps = n,
                       !.steps_per_eval = e, !.save_every = c,
                       !.ul2r_phase_fraction = fr, !.instruction_weight = w,
                       !.prng = ps, !.itune_batches = ib]

\* the draws matter only for a weight strictly between 0 and 1, and the length of
\* the instruction dataset only when it is read
ItuneSchedules ==
    { ItuneCfg(s, n, e, c, fr, 1, ps, ib) :
        s \in Seeds, n \in 0..MaxSteps, e \in 1..MaxEvery, c \in 1..MaxEvery,
        fr \in Fractions, ps \in PrngStreams, ib \in {1, MaxSteps} }
    \cup
    { ItuneCfg(s, n, e, c, fr, 2, NoStream, ib) :
        s \in Seeds, n \in 0..MaxSteps, e \in 1..MaxEvery, c \in 1..MaxEvery,
        fr \in Fractions, ib \in {1, MaxSteps} }
    \cup
    { ItuneCfg(s, n, e, c, fr, 0, NoStream, 1) :
        s \in Seeds, n \in 0..MaxSteps, e \in 1..MaxEvery, c \in 1..MaxEvery,
        fr \in Fractions }

\* instruction_tune always starts from the pretrained checkpoint
InstructionTuneCfgs ==
    { [c EXCEPT !.hf_dtype = dt] : c \in ItuneSchedules, dt \in Dtypes }

InitMem ==
    [pc |-> "start", model |-> Unbound, opt_state |-> Unbound, model_key |-> Unbound,
     itune_key |-> Unbound, training_key |-> Unbound, my_key |-> Unbound,
     example_keys |-> Unbound, resume_step |-> None, initial_step |-> Unbound,
     range_next |-> Unbound, step |-> None, step_loss |-> Unbound, grads |-> Unbound,
     example |-> Unbound, iter_data |-> Unbound, hooks |-> <<>>, ul2r_steps |-> Unbound,
     phase |-> 0, prng_n |-> Unbound, iter_itune |-> Unbound]

InitLog == [hook_log |-> <<>>, dispatches |-> <<>>, saves |-> <<>>, step_log |-> <<>>,
            split_log |-> <<>>, events |-> <<>>, phase_log |-> <<>>,
            prior_steps |-> {}, interrupted |-> None, failed |-> None,
            inits |-> <<>>, restored |-> None]

IdleLoop ==
    /\ cfg = DefaultCfg
    /\ disk = None
    /\ restarts = 0
    /\ mem = [InitMem EXCEPT !.pc = "idle"]
    /\ log = InitLog

\* RunningMean.__init__ with the default shape (): mean = zeros, count = 0
RunningMean_init == [mean |-> <<0, 1>>, count |-> 0]

\* a variant that averages the new value with the mean so far
update_HalfWay(self, x) ==
    [count |-> self.count + 1,
     mean |-> RatAdd(self.mean, RatDiv(RatSub(Rat(x, 1), self.mean), 2))]

\* RunningMean.update: count += 1; mean += (x - mean) / count
update(self, x) ==
    LET count == self.count + 1 IN
    [count |-> count,
     mean |-> RatAdd(self.mean, RatDiv(RatSub(Rat(x, 1), self.mean), count))]

IdleRM ==
    /\ running_mean = RunningMean_init
    /\ rm_xs = <<>>

IdleAcc ==
    /\ a_pc = "idle"
    /\ a_args = Unbound
    /\ a_inputs = Unbound
    /\ a_vmapped = Unbound
    /\ a_calls = <<>>
    /\ a_result = Unbound
    /\ a_ctx = NewCtx(NoMapping)

Init ==
    /\ IdleAcc
    /\ IdleRM
    /\ cfg \in TrainLmCfgs \cup InstructionTuneCfgs
    /\ disk = None
    /\ restarts = 0
    /\ mem = InitMem
    /\ log = InitLog

At(prog, pc) == cfg.prog = prog /\ mem.pc = pc

Frame == UNCHANGED <<accVars, rmVars, cfg, restarts>>

\* ============================================================== train_lm.main
\* a variant that leaves the training key out of what is restored
Restore_WithoutKey(m, ckpt) ==
    [m EXCEPT !.resume_step = Some(ckpt.step), !.model = ckpt.model,
              !.opt_state = ckpt.opt_state]

\* model, (opt_state, training_key), resume_step = maybe_load_checkpoint(...)
Restore(m, ckpt) ==
    [m EXCEPT !.resume_step = Some(ckpt.step), !.model = ckpt.model,
              !.opt_state = ckpt.opt_state, !.training_key = ckpt.training_key]

\* lines 57-198: the keys of the seed, and the shapes of model and opt_state
T_Start ==
    /\ At("train_lm", "start")
    /\ LET ks == split(PRNGKey(cfg.seed), 4) IN
       /\ mem' = [mem EXCEPT !.pc = "load", !.model_key = ks[3], !.training_key = ks[4],
                             !.model = "ShapeOnly", !.opt_state = "ShapeOnly"]
       /\ log' = [log EXCEPT !.split_log = Append(@, PRNGKey(cfg.seed))]
    /\ UNCHANGED disk
    /\ Frame

\* lines 202-207: maybe_load_checkpoint restores the latest checkpoint, or
\* returns what it was given and resume_step None when there is none
T_LoadCheckpoint ==
    /\ At("train_lm", "load")
    /\ mem' = IF disk = None
              THEN [mem EXCEPT !.pc = "init", !.resume_step = None]
              ELSE [Restore(mem, disk[1]) EXCEPT !.pc = "init"]
    /\ log' = [log EXCEPT !.restored = disk]
    /\ UNCHANGED disk
    /\ Frame

\* a variant that initialises whether or not a checkpoint was restored
NeedsFreshInit_Always(resume_step) == TRUE

\* line 209: if resume_step is None
NeedsFreshInit(resume_step) == resume_step = None

\* lines 211-223: the initialisation that runs when no checkpoint was found
InitSource(c) == IF c.initialize_from_hf THEN "load_pretrained" ELSE "init_model_and_opt_state"

\* lines 209-223: fresh initialisation when no checkpoint was found
T_Init ==
    /\ At("train_lm", "init")
    /\ mem' = IF ~NeedsFreshInit(mem.resume_step) THEN [mem EXCEPT !.pc = "hooks"]
              ELSE LET m == IF cfg.initialize_from_hf
                            THEN InitModel(<<"load_pretrained">>, cfg.hf_dtype)
                            ELSE cast_to_param(InitModel(<<"build", mem.model_key>>,
                                                         "as built")) IN
                   [mem EXCEPT !.pc = "hooks", !.model = m, !.opt_state = OptInit(m)]
    /\ log' = IF ~NeedsFreshInit(mem.resume_step) THEN log
              ELSE [log EXCEPT !.inits = Append(@, InitSource(cfg))]
    /\ UNCHANGED disk
    /\ Frame

\* lines 226-268: the hooks, the checkpointer among them
T_AddHooks ==
    /\ At("train_lm", "hooks")
    /\ mem' = [mem EXCEPT !.pc = "seek", !.hooks = TrainLmHooks(cfg)]
    /\ UNCHANGED <<disk, log>>
    /\ Frame

\* a variant that starts again at the step of the checkpoint
InitialStep_Repeat(resume_step) ==
    IF resume_step # None THEN resume_step[1] ELSE 0

\* lines 273-282: initial_step
InitialStep(resume_step) ==
    IF resume_step # None THEN resume_step[1] + 1 ELSE 0

\* lines 271-286: a fresh iterator, sought past the batches of the steps done
T_Seek ==
    /\ At("train_lm", "seek")
    /\ mem' = IF mem.resume_step # None
              THEN [mem EXCEPT !.pc = "for", !.iter_data = SeekCount(mem.resume_step[1]),
                               !.initial_step = InitialStep(mem.resume_step),
                               !.range_next = InitialStep(mem.resume_step), !.step_loss = 0]
              ELSE [mem EXCEPT !.pc = "for", !.iter_data = 0,
                               !.initial_step = InitialStep(mem.resume_step),
                               !.range_next = InitialStep(mem.resume_step), !.step_loss = 0]
    /\ UNCHANGED <<disk, log>>
    /\ Frame

\* line 289: for step in range(initial_step, num_train_steps)
T_For ==
    /\ At("train_lm", "for")
    /\ mem' = IF mem.range_next < cfg.num_train_steps
              THEN [mem EXCEPT !.pc = "next", !.step = Some(mem.range_next),
                               !.range_next = mem.range_next + 1]
              ELSE [mem EXCEPT !.pc = "final"]
    /\ log' = [log EXCEPT !.events = <<>>]
    /\ UNCHANGED disk
    /\ Frame

\* line 292: example = next(iter_data)
T_NextBatch ==
    /\ At("train_lm", "next")
    /\ mem' = [mem EXCEPT !.pc = "split", !.example = CycleBatch(mem.iter_data),
                          !.iter_data = mem.iter_data + 1]
    /\ log' = [log EXCEPT !.events = Append(@, "next(iter_data)")]
    /\ UNCHANGED disk
    /\ Frame

\* line 293: my_key, training_key = jrandom.split(training_key, 2)
T_Split ==
    /\ At("train_lm", "split")
    /\ LET ks == SplitTrainingKey(mem.training_key) IN
       mem' = [mem EXCEPT !.pc = "accumulate", !.my_key = ks.my_key,
                          !.training_key = ks.training_key]
    /\ log' = [log EXCEPT !.events = Append(@, "split"),
                          !.split_log = Append(@, mem.training_key)]
    /\ UNCHANGED disk
    /\ Frame

\* lines 297, 158-170 (train_step): the accumulator, given the key of the step
T_Accumulate ==
    /\ At("train_lm", "accumulate")
    /\ mem' = [mem EXCEPT !.pc = "update", !.example_keys = train_step_keys(mem.my_key),
                          !.step_loss = LossOf(mem.model, mem.example, mem.my_key),
                          !.grads = GradOf(mem.model, mem.example, mem.my_key)]
    /\ log' = [log EXCEPT !.events = Append(@, "accumulate_gradients_sharded"),
                          !.split_log = Append(@, mem.my_key)]
    /\ UNCHANGED disk
    /\ Frame

\* lines 173-176, 297-298 (train_step): the optimizer update
T_Update ==
    /\ At("train_lm", "update")
    /\ mem' = [mem EXCEPT !.pc = "run_hooks", !.model = ApplyUpdates(mem.model, mem.grads),
                          !.opt_state = OptUpdate(mem.opt_state, mem.grads)]
    /\ log' = [log EXCEPT !.events = Append(@, "optimizer.update")]
    /\ UNCHANGED disk
    /\ Frame

LogStep(l, info) ==
    [l EXCEPT !.step_log = Append(@, [step |-> info.step, batch |-> mem.example,
                                      my_key |-> mem.my_key,
                                      example_keys |-> mem.example_keys,
                                      loss |-> info.loss,
                                      training_key |-> info.training_key]),
              !.events = Append(@, "StepInfo")]

\* line 301: engine.run_hooks(StepInfo(step, model, opt_state, step_loss, training_key))
T_RunHooks ==
    /\ At("train_lm", "run_hooks")
    /\ LET info == StepInfo(mem.step[1], mem.model, mem.opt_state, mem.step_loss,
                            mem.training_key)
           st == run_hooks([disk |-> disk, log |-> LogStep(log, info)], mem.hooks,
                           info, FALSE) IN
       /\ disk' = st.disk
       /\ log' = st.log
    /\ mem' = [mem EXCEPT !.pc = "for"]
    /\ Frame

\* a variant of the loop that catches the failure and goes on to the next step
Propagate_Continue(m) == [m EXCEPT !.pc = "for"]

\* lines 289-301 hold no try/except: a failure inside the loop body leaves main
Propagate(m) == [m EXCEPT !.pc = "Exception"]

\* run_hooks invokes the callbacks in registration order and a failing callback
\* ends the dispatch: the callbacks that ran are those registered before it
HooksBeforeFailure(hooks, k) == SubSeq(hooks, 1, k - 1)

\* lines 297-298: train_step (the accumulator or the optimizer update) raises
T_StepRaises ==
    /\ cfg.prog = "train_lm"
    /\ mem.pc \in {"accumulate", "update"}
    /\ mem' = Propagate(mem)
    /\ log' = [log EXCEPT !.failed = Some([step |-> mem.step[1], fn |-> "train_step",
                                           k |-> 0])]
    /\ UNCHANGED disk
    /\ Frame

\* line 301: the k-th registered hook is due and raises
T_HookRaises ==
    /\ At("train_lm", "run_hooks")
    /\ \E k \in 1..Len(mem.hooks) :
          LET info == StepInfo(mem.step[1], mem.model, mem.opt_state, mem.step_loss,
                               mem.training_key)
              fn == mem.hooks[k].fn
              st == run_hooks([disk |-> disk, log |-> LogStep(log, info)],
                              HooksBeforeFailure(mem.hooks, k), info, FALSE) IN
          /\ Due(mem.hooks[k], info, FALSE)
          /\ disk' = st.disk
          /\ log' = [st.log EXCEPT
                        !.hook_log = Append(@, [fn |-> fn, step |-> info.step,
                                                via |-> "run_hooks", info |-> info]),
                        !.events = Append(@, fn),
                        !.failed = Some([step |-> info.step, fn |-> fn, k |-> k])]
    /\ mem' = Propagate(mem)
    /\ Frame

\* a variant that gives the final StepInfo the index of the last executed step
last_step_LoopIndex(c, m) ==
    StepInfo(c.num_train_steps - 1, m.model, m.opt_state, m.step_loss, m.training_key)

\* lines 303-310: last_step = StepInfo(num_train_steps, model, opt_state, step_loss,
\* training_key)
last_step(c, m) ==
    StepInfo(c.num_train_steps, m.model, m.opt_state, m.step_loss, m.training_key)

\* lines 303-312: last_step and the forced hook dispatch
T_FinalHooks ==
    /\ At("train_lm", "final")
    /\ LET st == run_hooks([disk |-> disk, log |-> log], mem.hooks, last_step(cfg, mem),
                           TRUE) IN
       /\ disk' = st.disk
       /\ log' = st.log
    /\ mem' = [mem EXCEPT !.pc = "final_checkpoint"]
    /\ Frame

\* line 313: checkpointer.on_step(last_step, force=True)
T_FinalCheckpoint ==
    /\ At("train_lm", "final_checkpoint")
    /\ LET st == CallHook([disk |-> disk, log |-> log], "checkpointer.on_step",
                          last_step(cfg, mem), TRUE, "direct") IN
       /\ disk' = st.disk
       /\ log' = st.log
    /\ mem' = [mem EXCEPT !.pc = "done"]
    /\ Frame

\* the step whose computation the process is in the middle of, if any
InterruptedStep(m) ==
    IF m.pc \in {"next", "split", "accumulate", "update", "run_hooks", "Exception"}
    THEN m.step ELSE None

\* what the record of the calls keeps across a launch: the step indices executed
\* (completed or begun) by earlier launches, and the step the kill interrupted
LogAfterRestart(m, l) ==
    [InitLog EXCEPT
        !.prior_steps = l.prior_steps
                        \cup {l.step_log[j].step : j \in 1..Len(l.step_log)}
                        \cup {InterruptedStep(m)[i] : i \in 1..Len(InterruptedStep(m))},
        !.interrupted = InterruptedStep(m)]

\* the process is killed at any point, or has exited, and is launched again with
\* the same configuration: its memory is lost, the checkpoint storage is kept
T_Restart ==
    /\ cfg.prog = "train_lm"
    /\ mem.pc # "start"
    /\ restarts < MaxRestarts
    /\ restarts' = restarts + 1
    /\ mem' = InitMem
    /\ log' = LogAfterRestart(mem, log)
    /\ UNCHANGED <<accVars, rmVars, cfg, disk>>

\* ====================================================== instruction_tune.main
\* int(num_train_steps * ul2r_phase_fraction)
Ul2rSteps(c) ==
    (c.num_train_steps * c.ul2r_phase_fraction[1]) \div c.ul2r_phase_fraction[2]

\* a variant whose generator is not seeded: any outcome
Uniform_Unseeded(c, n) == {0, 1}

\* the outcomes of the n-th prng.uniform() (n from 1): the generator is seeded
\* with itune_key, so there is one
Uniform(c, n) == {c.prng[n]}

\* lines 62-101: the keys of the seed, the pretrained model, the optimizer state
IT_Start ==
    /\ At("instruction_tune", "start")
    /\ LET ks == split(PRNGKey(cfg.seed), 3)
           m == InitModel(<<"load_hf_gpt2_checkpoint">>, cfg.hf_dtype) IN
       /\ mem' = [mem EXCEPT !.pc = "hooks", !.itune_key = ks[2], !.training_key = ks[3],
                             !.model = m, !.opt_state = OptInit(m)]
       /\ log' = [log EXCEPT !.split_log = Append(@, PRNGKey(cfg.seed))]
    /\ UNCHANGED disk
    /\ Frame

\* lines 139-155: the hooks, the cyclic iterator over dataset A, ul2r_steps
IT_AddHooks ==
    /\ At("instruction_tune", "hooks")
    /\ mem' = [mem EXCEPT !.pc = "for", !.hooks = InstructionTuneHooks(cfg),
                          !.iter_data = 0, !.ul2r_steps = Ul2rSteps(cfg),
                          !.phase = 1, !.range_next = 0]
    /\ UNCHANGED <<disk, log>>
    /\ Frame

\* line 157: for step in range(ul2r_steps)
IT_For1 ==
    /\ At("instruction_tune", "for")
    /\ mem.phase = 1
    /\ mem' = IF mem.range_next < mem.ul2r_steps
              THEN [mem EXCEPT !.pc = "next", !.step = Some(mem.range_next),
                               !.range_next = mem.range_next + 1]
              ELSE [mem EXCEPT !.pc = "ul2r_finished"]
    /\ log' = [log EXCEPT !.events = <<>>]
    /\ UNCHANGED disk
    /\ Frame

\* line 160: batch = next(iter_data)
IT_NextBatch1 ==
    /\ At("instruction_tune", "next")
    /\ mem.phase = 1
    /\ mem' = [mem EXCEPT !.pc = "split", !.example = CycleBatch(mem.iter_data),
                          !.iter_data = mem.iter_data + 1]
    /\ log' = [log EXCEPT !.events = Append(@, "next(iter_data)")]
    /\ UNCHANGED disk
    /\ Frame

\* lines 161-164 and 212-215: the key split and the per-example keys
IT_Split ==
    /\ At("instruction_tune", "split")
    /\ LET ks == SplitTrainingKey(mem.training_key) IN
       mem' = [mem EXCEPT !.pc = "train_step", !.my_key = ks.my_key,
                          !.training_key = ks.training_key,
                          !.example_keys = per_example_keys(ks.my_key)]
    /\ log' = [log EXCEPT !.events = Append(@, "split"),
                          !.split_log = @ \o <<mem.training_key,
                                               SplitTrainingKey(mem.training_key).my_key>>]
    /\ UNCHANGED disk
    /\ Frame

\* lines 166-168 and 217-219 (train_step, lines 121-136)
IT_TrainStep ==
    /\ At("instruction_tune", "train_step")
    /\ LET g == GradOf(mem.model, mem.example, mem.my_key) IN
       mem' = [mem EXCEPT !.pc = "run_hooks",
                          !.step_loss = LossOf(mem.model, mem.example, mem.my_key),
                          !.grads = g,
                          !.model = ApplyUpdates(mem.model, g),
                          !.opt_state = OptUpdate(mem.opt_state, g)]
    /\ log' = [log EXCEPT !.events = @ \o <<"accumulate_gradients_sharded",
                                           "optimizer.update", <<"phase", mem.phase>>>>,
                          !.phase_log = Append(@, <<mem.step[1], mem.phase>>)]
    /\ UNCHANGED disk
    /\ Frame

\* lines 171 and 222: engine.run_hooks(StepInfo(...))
IT_RunHooks ==
    /\ At("instruction_tune", "run_hooks")
    /\ LET info == StepInfo(mem.step[1], mem.model, mem.opt_state, mem.step_loss,
                            mem.training_key)
           st == run_hooks([disk |-> disk, log |-> LogStep(log, info)], mem.hooks,
                           info, FALSE) IN
       /\ disk' = st.disk
       /\ log' = st.log
    /\ mem' = [mem EXCEPT !.pc = "for"]
    /\ Frame

\* the tag of the checkpoint saved at the phase boundary (line 176)
PhaseBoundaryTag == "ul2r_finished"

\* a variant whose sampler opens a cyclic iterator of its own over dataset A
SamplerIterData_Reopened(iter_data) == 0

\* lines 182-204: batch_sampler closes over iter_data, the iterator of phase 1,
\* and reads on from where phase 1 left it
SamplerIterData(iter_data) == iter_data

\* lines 173-206: the checkpoint at the phase boundary, then the batch sampler
IT_Ul2rFinished ==
    /\ At("instruction_tune", "ul2r_finished")
    /\ LET info == StepInfo(mem.step[1], mem.model, mem.opt_state, mem.step_loss,
                            mem.training_key)
           st == IF mem.ul2r_steps > 0
                 THEN save_checkpoint([disk |-> disk, log |-> log], info,
                                      PhaseBoundaryTag, TRUE)
                 ELSE [disk |-> disk, log |-> log] IN
       /\ disk' = st.disk
       /\ log' = st.log
    /\ mem' = [mem EXCEPT !.pc = "for", !.phase = 2, !.range_next = mem.ul2r_steps,
                          !.iter_data = SamplerIterData(mem.iter_data),
                          !.prng_n = 0, !.iter_itune = 0]
    /\ Frame

\* line 208: for step in range(ul2r_steps, num_train_steps)
IT_For2 ==
    /\ At("instruction_tune", "for")
    /\ mem.phase = 2
    /\ mem' = IF mem.range_next < cfg.num_train_steps
              THEN [mem EXCEPT !.pc = "next", !.step = Some(mem.range_next),
                               !.range_next = mem.range_next + 1]
              ELSE [mem EXCEPT !.pc = "final"]
    /\ log' = [log EXCEPT !.events = <<>>]
    /\ UNCHANGED disk
    /\ Frame

\* line 211 and batch_sampler (lines 190-204): one draw, then a batch of the
\* instruction dataset or the next batch of the cyclic iterator; the instruction
\* dataset is read once, and running out of it ends the generator in an error
IT_NextBatch2 ==
    /\ At("instruction_tune", "next")
    /\ mem.phase = 2
    /\ \E u \in Uniform(cfg, mem.prng_n + 1) :
          mem' = IF u < cfg.instruction_weight
                 THEN IF mem.iter_itune < cfg.itune_batches
                      THEN [mem EXCEPT !.pc = "split", !.prng_n = mem.prng_n + 1,
                                       !.example = <<"B", mem.iter_itune>>,
                                       !.iter_itune = mem.iter_itune + 1]
                      ELSE [mem EXCEPT !.pc = "StopIteration", !.prng_n = mem.prng_n + 1]
                 ELSE [mem EXCEPT !.pc = "split", !.prng_n = mem.prng_n + 1,
                                  !.example = CycleBatch(mem.iter_data),
                                  !.iter_data = mem.iter_data + 1]
    /\ log' = [log EXCEPT !.events = Append(@, "next(iter_data_2)")]
    /\ UNCHANGED disk
    /\ Frame

\* a variant that numbers the final StepInfo one past the last step, as train_lm does
final_StepInfo_OnePast(m) ==
    StepInfo(m.step[1] + 1, m.model, m.opt_state, m.step_loss, m.training_key)

\* line 226: StepInfo(step, model, opt_state, step_loss, training_key, ...), step
\* being the loop variable as the last iteration left it
final_StepInfo(m) ==
    StepInfo(m.step[1], m.model, m.opt_state, m.step_loss, m.training_key)

\* the tag of the final save (line 226)
FinalTag == "instruction_tuned"

\* lines 224-227: the final save; step and step_loss are unbound when no step ran
IT_Final ==
    /\ At("instruction_tune", "final")
    /\ IF mem.step = None
       THEN /\ mem' = [mem EXCEPT !.pc = "NameError"]
            /\ UNCHANGED <<disk, log>>
       ELSE LET st == save_checkpoint([disk |-> disk, log |-> log], final_StepInfo(mem),
                                      FinalTag, TRUE) IN
            /\ disk' = st.disk
            /\ log' = st.log
            /\ mem' = [mem EXCEPT !.pc = "done"]
    /\ Frame

Next ==
    \/ T_Start \/ T_LoadCheckpoint \/ T_Init \/ T_AddHooks \/ T_Seek \/ T_For
    \/ T_NextBatch \/ T_Split \/ T_Accumulate \/ T_Update \/ T_RunHooks
    \/ T_FinalHooks \/ T_FinalCheckpoint \/ T_Restart
    \/ T_StepRaises \/ T_HookRaises
    \/ IT_Start \/ IT_AddHooks \/ IT_For1 \/ IT_NextBatch1 \/ IT_Split \/ IT_TrainStep
    \/ IT_RunHooks \/ IT_Ul2rFinished \/ IT_For2 \/ IT_NextBatch2 \/ IT_Final

Spec == Init /\ [][Next]_vars

\* ---------------------------------------------------------- inputs
Ramp(B) == [i \in 1..B |-> i]

\* example payloads: every batch over ExampleVals, plus the ramp 1..B
ExampleVals == {1, 2}

ExampleBatches(B) == [1..B -> ExampleVals] \cup {Ramp(B)}

AccArgs ==
    { [f |-> fk, examples |-> xs, keys |-> Ramp(Len(xs)),
       data_axis_size |-> d, per_device_parallelism |-> p] :
        fk \in FKinds \cup {"raise"}, d \in 1..MaxD, p \in 1..MaxP,
        xs \in UNION { ExampleBatches(B) : B \in 1..MaxB } }

InitAcc ==
    /\ a_pc = "entry"
    /\ a_args \in AccArgs
    /\ a_inputs = Unbound
    /\ a_vmapped = Unbound
    /\ a_calls = <<>>
    /\ a_result = Unbound
    /\ a_ctx \in {NewCtx(e) : e \in EntryMappings}
    /\ IdleLoop
    /\ IdleRM

\* lines 86-89: shapes and the divisibility assertion
AccEntry ==
    /\ a_pc = "entry"
    /\ a_pc' = IF DivisibilityAssert(a_args) THEN "reshape" ELSE "AssertionError"
    /\ UNCHANGED <<a_args, a_inputs, a_vmapped, a_calls, a_result, a_ctx>>
    /\ UNCHANGED <<loopVars, rmVars>>

\* lines 92-99: the compute scope is entered, then the mass reshape
AccReshape ==
    /\ a_pc = "reshape"
    /\ a_ctx' = axis_mapping_enter(a_ctx, "compute", compute_axis_mapping, ComputeScopeMerge)
    /\ a_inputs' = ReshapeInputs(a_args)
    /\ a_pc' = "vmap"
    /\ UNCHANGED <<a_args, a_vmapped, a_calls, a_result>>
    /\ UNCHANGED <<loopVars, rmVars>>

\* the scopes of lines 103-105 and 92 around the calls of f: the microbatch scope
\* is entered (merge=True), f runs under it, and both scopes are left, whether f
\* returned or raised
ScopesAroundF(ctx) ==
    LET inner == axis_mapping_enter(ctx, "microbatch", MicrobatchMapping, TRUE)
        called == [inner EXCEPT !.at_f = @ \cup {Active(inner)}] IN
    axis_mapping_exit(axis_mapping_exit(called, "microbatch"), "compute")

\* lines 101-107: the vmapped accumulation; an f that raises ends the call
AccVmap ==
    /\ a_pc = "vmap"
    /\ a_ctx' = ScopesAroundF(a_ctx)
    /\ IF a_args.f = "raise"
       THEN /\ a_calls' = <<<<a_inputs.examples[1][1], a_inputs.keys[1][1]>>>>
            /\ a_pc' = "Exception"
            /\ UNCHANGED a_vmapped
       ELSE /\ a_vmapped' = VmapAccumulate(a_args.f, a_inputs)
            /\ a_calls' = Concat([m \in 1..Len(a_vmapped') |-> a_vmapped'[m].calls], 1)
            /\ a_pc' = "reduce"
    /\ UNCHANGED <<a_args, a_inputs, a_result>>
    /\ UNCHANGED <<loopVars, rmVars>>

\* lines 110-114: the means are computed inside the parameter scope
ScopeAroundMean(ctx) ==
    LET inner == axis_mapping_enter(ctx, "parameter", parameter_axis_mapping, FALSE)
        computed == [inner EXCEPT !.at_mean = @ \cup {Active(inner)}] IN
    axis_mapping_exit(computed, "parameter")

\* lines 110-116: the means and the return
AccReduce ==
    /\ a_pc = "reduce"
    /\ a_ctx' = ScopeAroundMean(a_ctx)
    /\ a_result' = ReduceGrads(a_vmapped)
    /\ a_pc' = "returned"
    /\ UNCHANGED <<a_args, a_inputs, a_vmapped, a_calls>>
    /\ UNCHANGED <<loopVars, rmVars>>

NextAcc == AccEntry \/ AccReshape \/ AccVmap \/ AccReduce

SpecAcc == InitAcc /\ [][NextAcc]_vars

\* ============================================================ RunningMean
\* how many updates an instance receives
MaxUpdates == 3

\* the values update is called with
RMVals == {0 - 2, 0 - 1, 0, 1, 3}

InitRM ==
    /\ IdleAcc
    /\ IdleLoop
    /\ IdleRM

\* a fresh instance is constructed
RM_New ==
    /\ rm_xs # <<>>
    /\ running_mean' = RunningMean_init
    /\ rm_xs' = <<>>
    /\ UNCHANGED <<accVars, loopVars>>

\* update(x) is called on the instance
RM_Update ==
    /\ Len(rm_xs) < MaxUpdates
    /\ \E x \in RMVals :
          /\ running_mean' = update(running_mean, x)
          /\ rm_xs' = Append(rm_xs, x)
    /\ UNCHANGED <<accVars, loopVars>>

NextRM == RM_New \/ RM_Update

SpecRM == InitRM /\ [][NextRM]_vars

\* ------------------------------------------------- accumulator properties
Divisible(args) ==
    Len(args.examples) % (args.data_axis_size * args.per_device_parallelism) = 0

RECURSIVE SumLoss(_, _, _, _)
SumLoss(fk, xs, ks, i) ==
    IF i > Len(xs) THEN 0 ELSE f(fk, xs[i], ks[i])[1] + SumLoss(fk, xs, ks, i + 1)

RECURSIVE SumGrad(_, _, _, _)
SumGrad(fk, xs, ks, i) ==
    IF i > Len(xs) THEN 0 ELSE f(fk, xs[i], ks[i])[2] + SumGrad(fk, xs, ks, i + 1)

ScenarioArgs ==
    [f |-> "id", examples |-> Ramp(8), keys |-> Ramp(8),
     data_axis_size |-> 2, per_device_parallelism |-> 2]

\* C1: when B mod (data_axis_size * per_device_parallelism) /= 0, the call ends in
\* the assertion error of line 89 with f never invoked, nothing reshaped and
\* nothing returned.
C1_FailsBeforeAnyExample ==
    (~Divisible(a_args) /\ a_pc # "entry") =>
        /\ a_pc = "AssertionError"
        /\ a_calls = <<>>
        /\ a_inputs = Unbound
        /\ a_vmapped = Unbound
        /\ a_result = Unbound

C1_Witness ==
    /\ a_pc = "AssertionError"
    /\ Len(a_args.examples) = 6
    /\ a_args.data_axis_size = 2
    /\ a_args.per_device_parallelism = 2

\* C2: for a divisible batch, f is invoked exactly once on each example (paired
\* with its own key) and the result is (sum of the B losses)/B and (sum of the B
\* gradients)/B; the scenario B=8, d=2, p=2, loss=grad=i gives 9/2 for both.
C2_MeanOverTotalExampleCount ==
    (Divisible(a_args) /\ a_pc = "returned") =>
        LET B == Len(a_args.examples) IN
        /\ Len(a_calls) = B
        /\ \A i \in 1..B :
              Cardinality({j \in 1..Len(a_calls) :
                              a_calls[j] = <<a_args.examples[i], a_args.keys[i]>>}) = 1
        /\ a_result.loss = Rat(SumLoss(a_args.f, a_args.examples, a_args.keys, 1), B)
        /\ a_result.grad = Rat(SumGrad(a_args.f, a_args.examples, a_args.keys, 1), B)
        /\ (a_args = ScenarioArgs => a_result = [loss |-> <<9, 2>>, grad |-> <<9, 2>>])

C2_Witness ==
    /\ a_pc = "returned"
    /\ a_args = ScenarioArgs
    /\ Len(a_inputs.examples) = 4
    /\ Len(a_inputs.examples[1]) = 2
    /\ a_result.loss = <<9, 2>>

\* C3: the returned (loss, grads) is the same for every per_device_parallelism that
\* divides the batch evenly, and equals one full-batch evaluation
\* (accumulate_gradients over the whole, unsplit batch).
C3_InvariantToPerDeviceParallelism ==
    (a_pc = "returned") =>
        LET full == accumulate_gradients(a_args.f,
                        [i \in 1..Len(a_args.examples) |->
                            <<a_args.examples[i], a_args.keys[i]>>]) IN
        /\ a_result = [loss |-> full.loss, grad |-> full.grad]
        /\ \A p2 \in 1..MaxP :
              LET args2 == [a_args EXCEPT !.per_device_parallelism = p2] IN
              Divisible(args2) => accumulate_gradients_sharded(args2) = a_result

C3_Witness ==
    /\ a_pc = "returned"
    /\ a_args.f = "mix"
    /\ Len(a_args.examples) = 8
    /\ a_args.data_axis_size = 2
    /\ a_args.per_device_parallelism = 2
    /\ Divisible([a_args EXCEPT !.per_device_parallelism = 1])
    /\ a_args.examples # [i \in 1..8 |-> 1]

\* ------------------------------------------------------- loop properties
IsTrainLm == cfg.prog = "train_lm"

IsInstructionTune == cfg.prog = "instruction_tune"

\* the indices of a sequence whose element satisfies a test
Count(seq, Test(_)) == Cardinality({i \in 1..Len(seq) : Test(seq[i])})

\* what an uninterrupted run from the seed holds before step i
RefTrainingKey0(c) == IF c.prog = "train_lm" THEN <<c.seed, 4>> ELSE <<c.seed, 3>>

RECURSIVE RefTrainingKey(_, _)
RefTrainingKey(c, i) ==
    IF i = 0 THEN RefTrainingKey0(c) ELSE Append(RefTrainingKey(c, i - 1), 2)

RefMyKey(c, i) == Append(RefTrainingKey(c, i), 1)

RefInit(c) ==
    IF c.prog = "train_lm"
    THEN IF c.initialize_from_hf THEN <<"load_pretrained">> ELSE <<"build", <<c.seed, 3>>>>
    ELSE <<"load_hf_gpt2_checkpoint">>

\* instruction batches among the first n draws of phase 2
RECURSIVE CountB(_, _)
CountB(c, n) ==
    IF n = 0 THEN 0
    ELSE CountB(c, n - 1) + (IF c.prng[n] < c.instruction_weight THEN 1 ELSE 0)

RefBatch(c, i) ==
    LET u == (c.num_train_steps * c.ul2r_phase_fraction[1]) \div c.ul2r_phase_fraction[2]
        n == i - u + 1 IN
    IF c.prog = "train_lm" \/ i < u THEN <<"A", i % DataLen>>
    ELSE IF c.prng[n] < c.instruction_weight THEN <<"B", CountB(c, n - 1)>>
    ELSE <<"A", (u + (n - 1) - CountB(c, n - 1)) % DataLen>>

RefUpdates(c, i) == [j \in 1..i |-> <<RefBatch(c, j - 1), RefMyKey(c, j - 1)>>]

\* the dtype the model of a run is stored in
RefDtype(c) ==
    IF c.prog = "train_lm" /\ ~c.initialize_from_hf THEN "parameter" ELSE c.hf_dtype

RefModel(c, i) == [init |-> RefInit(c), upd |-> RefUpdates(c, i), dtype |-> RefDtype(c)]

RefLoss(c, i) ==
    [model |-> RefModel(c, i), example |-> RefBatch(c, i), key |-> RefMyKey(c, i)]

\* a dispatched StepInfo agrees with the uninterrupted run's step i
MatchesRef(e, i) ==
    /\ e.step = i
    /\ e.batch = RefBatch(cfg, i)
    /\ e.my_key = RefMyKey(cfg, i)
    /\ e.loss = RefLoss(cfg, i)
    /\ e.training_key = RefTrainingKey(cfg, i + 1)

FinalInfo ==
    StepInfo(cfg.num_train_steps, mem.model, mem.opt_state, mem.step_loss, mem.training_key)

\* C4: at the end of train_lm the hooks have been dispatched with force=true
\* exactly once, exactly one forced checkpoint has been taken, and the final
\* state has been saved exactly once.
C4_ExactlyOneFinalSave ==
    (IsTrainLm /\ mem.pc = "done") =>
        /\ Count(log.dispatches, LAMBDA d : d.force) = 1
        /\ Count(log.saves, LAMBDA sv : sv.force) = 1
        /\ Count(log.saves, LAMBDA sv : sv.info = FinalInfo) = 1

\* C5: a run that finds a checkpoint of step k restores model, optimizer state and
\* training key from it, discards exactly k+1 batches of a fresh iterator and
\* starts at step k+1; every step, resumed or not, is fed the batch of its index.
C5_ResumeSeeksToStep ==
    IsTrainLm =>
        /\ (mem.pc \in {"init", "hooks", "seek"} /\ mem.resume_step # None) =>
              /\ mem.resume_step = Some(disk[1].step)
              /\ mem.model = disk[1].model
              /\ mem.opt_state = disk[1].opt_state
              /\ mem.training_key = disk[1].training_key
        /\ (mem.pc = "for" /\ mem.resume_step # None /\ log.dispatches = <<>>) =>
              /\ mem.iter_data = mem.resume_step[1] + 1
              /\ mem.initial_step = mem.resume_step[1] + 1
              /\ mem.range_next = mem.resume_step[1] + 1
        /\ \A j \in 1..Len(log.step_log) :
              /\ log.step_log[j].batch = <<"A", log.step_log[j].step % DataLen>>
              /\ log.step_log[j].step =
                    (IF mem.resume_step = None THEN 0 ELSE mem.resume_step[1] + 1) + j - 1

C5_Witness ==
    /\ IsTrainLm
    /\ restarts = 1
    /\ mem.resume_step = Some(1)
    /\ Len(log.step_log) = 2
    /\ log.step_log[1].step = 2
    /\ log.step_log[1].batch = <<"A", 2>>
    /\ log.step_log[2].batch = <<"A", 0>>

\* C6: however often the run was interrupted and resumed from a checkpoint, it
\* ends with the model, optimizer state and training key of an uninterrupted run
\* of num_train_steps steps; a run resumed from step k < N executes exactly the
\* steps k+1..N-1, each with the batch, key and loss of the uninterrupted run.
C6_ResumeEqualsUninterrupted ==
    (IsTrainLm /\ mem.pc = "done") =>
        /\ mem.model = RefModel(cfg, cfg.num_train_steps)
        /\ mem.opt_state = RefModel(cfg, cfg.num_train_steps)
        /\ mem.training_key = RefTrainingKey(cfg, cfg.num_train_steps)
        /\ (mem.resume_step # None /\ mem.resume_step[1] < cfg.num_train_steps) =>
              /\ Len(log.step_log) = cfg.num_train_steps - 1 - mem.resume_step[1]
              /\ \A j \in 1..Len(log.step_log) :
                    MatchesRef(log.step_log[j], mem.resume_step[1] + j)

C6_Witness ==
    /\ IsTrainLm
    /\ mem.pc = "done"
    /\ cfg.num_train_steps = 4
    /\ mem.resume_step = Some(1)
    /\ Len(log.step_log) = 2
    /\ Len(mem.model.upd) = 4

\* C7: at the end of train_lm every hook registered with every=k has been invoked
\* exactly at the executed steps that are multiples of k and exactly once more
\* with the final StepInfo, and never twice with the same StepInfo.
C7_HookCadence ==
    (IsTrainLm /\ mem.pc = "done") =>
        \A h \in 1..Len(mem.hooks) :
            LET fn == mem.hooks[h].fn
                every == mem.hooks[h].every IN
            /\ \A j \in 1..Len(log.step_log) :
                  Count(log.hook_log,
                        LAMBDA c : c.fn = fn /\ c.step = log.step_log[j].step)
                      = (IF log.step_log[j].step % every = 0 THEN 1 ELSE 0)
            /\ Count(log.hook_log, LAMBDA c : c.fn = fn /\ c.info = FinalInfo) = 1
            /\ \A a, b \in 1..Len(log.hook_log) :
                  (a # b /\ log.hook_log[a].fn = fn /\ log.hook_log[b].fn = fn)
                      => log.hook_log[a].info # log.hook_log[b].info

\* the position of an event in the events of the current step (0 when absent)
Pos(ev) ==
    IF \E i \in 1..Len(log.events) : log.events[i] = ev
    THEN CHOOSE i \in 1..Len(log.events) : log.events[i] = ev
    ELSE 0

\* C8: in every completed step of train_lm the sub-steps happened in the order
\* batch, key split, accumulator, optimizer update, StepInfo, hooks, and the
\* checkpoint manager was dispatched after every other hook of the step.
C8_SubStepOrder ==
    (IsTrainLm /\ mem.pc = "for" /\ log.events # <<>>) =>
        /\ SubSeq(log.events, 1, 5) = <<"next(iter_data)", "split",
                                        "accumulate_gradients_sharded",
                                        "optimizer.update", "StepInfo">>
        /\ Pos("checkpointer.on_step") = Len(log.events)

\* every key handed to the accumulator so far, as <<step index, key>>
ExampleKeys ==
    UNION { { <<j, log.step_log[j].example_keys[x]>> :
                x \in 1..Len(log.step_log[j].example_keys) } :
            j \in 1..Len(log.step_log) }

\* C9: in a run of either loop no key is split twice, every step splits the
\* training key it inherited into its own my_key and the training key it hands
\* on, the keys the accumulator is given at a step are my_key or children of it,
\* and no step key and no accumulator key is used by two steps.
C9_NoKeyReuse ==
    /\ \A a, b \in 1..Len(log.split_log) :
          a # b => log.split_log[a] # log.split_log[b]
    /\ \A j \in 1..Len(log.step_log) :
          LET e == log.step_log[j]
              parent == SubSeq(e.my_key, 1, Len(e.my_key) - 1) IN
          /\ e.my_key = Append(parent, 1)
          /\ e.training_key = Append(parent, 2)
          /\ j > 1 => parent = log.step_log[j - 1].training_key
          /\ \A x \in 1..Len(e.example_keys) :
                e.example_keys[x] = e.my_key \/ e.example_keys[x] = Append(e.my_key, x)
          /\ \A i \in 1..Len(log.step_log) :
                i # j => /\ log.step_log[i].my_key # e.my_key
                         /\ log.step_log[i].training_key # e.my_key
    /\ \A p, q \in ExampleKeys : p[2] = q[2] => p = q
    /\ (mem.pc = "for" /\ log.step_log # <<>>) =>
          mem.training_key = log.step_log[Len(log.step_log)].training_key

C9_Witness ==
    /\ IsInstructionTune
    /\ mem.pc = "done"
    /\ mem.ul2r_steps = 2
    /\ Len(log.step_log) = 4
    /\ log.step_log[3].my_key = Append(log.step_log[2].training_key, 1)
    /\ Cardinality(ExampleKeys) = 4 * TrainBatchSize

\* C10: in a run from a fresh start the batch, the step key and the loss of every
\* dispatched StepInfo are those the seed, the configuration and the data source
\* determine, in the single-phase and in the two-phase loop.
C10_Deterministic ==
    (mem.resume_step = None) =>
        \A j \in 1..Len(log.step_log) : MatchesRef(log.step_log[j], j - 1)

C10_Witness ==
    /\ IsInstructionTune
    /\ mem.pc = "done"
    /\ cfg.num_train_steps = 4
    /\ cfg.instruction_weight = 1
    /\ mem.ul2r_steps = 2
    /\ log.step_log[3].batch = <<"B", 0>>
    /\ log.step_log[4].batch = <<"A", 2>>
    /\ log.step_log[4].loss.model.upd[3] = <<<<"B", 0>>, log.step_log[3].my_key>>

\* the step indices wandb.log tagged with phase p, in the order they were logged
PhaseTagged(p) == SelectSeq(log.phase_log, LAMBDA e : e[2] = p)

\* the run of the two-phase loop has ended, normally or in an error
ItuneEnded == IsInstructionTune /\ mem.pc \in {"done", "NameError", "StopIteration"}

\* C11: the two-phase loop runs exactly floor(N*f) steps tagged phase 1, then saves
\* the forced phase-boundary checkpoint before any phase-2 step, then runs exactly
\* N - floor(N*f) steps tagged phase 2; every step carries one tag and the tagged
\* step indices are 0..N-1 in order.
C11_TwoPhaseSchedule ==
    IsInstructionTune =>
        /\ ((mem.phase = 2 /\ mem.pc \in {"next", "split", "train_step", "run_hooks"})
              \/ PhaseTagged(2) # <<>>)
             => \E i \in 1..Len(log.saves) :
                   /\ log.saves[i].tag = PhaseBoundaryTag
                   /\ log.saves[i].force
        /\ \A j \in 1..Len(log.phase_log) :
              /\ log.phase_log[j][1] = j - 1
              /\ log.phase_log[j][2] = (IF j <= Ul2rSteps(cfg) THEN 1 ELSE 2)
        /\ ItuneEnded =>
              /\ Len(PhaseTagged(1)) = Ul2rSteps(cfg)
              /\ Len(PhaseTagged(2)) = cfg.num_train_steps - Ul2rSteps(cfg)

\* the index the per-step loop of this run starts at
FirstStep == IF mem.resume_step = None THEN 0 ELSE mem.resume_step[1] + 1

\* a step has begun and its hooks have not returned yet
StepInProgress ==
    mem.pc \in {"next", "split", "accumulate", "update", "train_step", "run_hooks"}

\* C12: in both loops the dispatched step indices start at the initial step (0, or
\* resume_step + 1 on resume), increase by exactly 1 and end at num_train_steps - 1,
\* each index once; a step begins only after every earlier step of the run has
\* been dispatched to the hooks.
C12_StepsInOrder ==
    /\ \A j \in 1..Len(log.step_log) : log.step_log[j].step = FirstStep + j - 1
    /\ Count(log.dispatches, LAMBDA d : ~d.force) = Len(log.step_log)
    /\ \A j \in 1..Len(log.step_log) :
          Count(log.hook_log, LAMBDA c : c.fn = "pbar_logger" /\ c.via = "run_hooks"
                                         /\ c.info.loss = log.step_log[j].loss
                                         /\ c.step = log.step_log[j].step) = 1
    /\ StepInProgress => mem.step = Some(FirstStep + Len(log.step_log))
    /\ mem.pc \in {"final", "final_checkpoint", "done"} =>
          Len(log.step_log) = (IF cfg.num_train_steps > FirstStep
                               THEN cfg.num_train_steps - FirstStep ELSE 0)

C12_Witness ==
    /\ IsTrainLm
    /\ mem.pc = "done"
    /\ restarts = 1
    /\ mem.resume_step = Some(0)
    /\ Len(log.step_log) = 3
    /\ log.step_log[1].step = 1
    /\ log.step_log[3].step = 3

\* C13: after a kill and a relaunch of train_lm, the only step index executed both
\* before the kill and after the relaunch is the step the kill interrupted.
C13_AtMostOneStepRedone ==
    IsTrainLm =>
        /\ \A j \in 1..Len(log.step_log) :
              log.step_log[j].step \in log.prior_steps
                  => Some(log.step_log[j].step) = log.interrupted
        /\ (StepInProgress /\ mem.step[1] \in log.prior_steps)
              => mem.step = log.interrupted

\* C14: at every training step the accumulator is given one key per example of the
\* batch: train_batch_size keys, pairwise distinct, each derived from the my_key
\* of the step.
C14_OneKeyPerExample ==
    \A j \in 1..Len(log.step_log) :
        LET e == log.step_log[j] IN
        /\ Len(e.example_keys) = TrainBatchSize
        /\ \A x \in 1..Len(e.example_keys) : e.example_keys[x] = Append(e.my_key, x)
        /\ \A x, y \in 1..Len(e.example_keys) :
              x # y => e.example_keys[x] # e.example_keys[y]

\* the positions in the logical batch (1-based) of the examples micro-step t
\* processes: the keys of the inputs are the ramp 1..B, so a key is a position
MicroStepPositions(t) == {a_inputs.keys[m][t] : m \in 1..Len(a_inputs.keys)}

\* C15: after the reshape there are num_micro_steps = B / microbatch_size micro-steps
\* of exactly microbatch_size = data_axis_size * per_device_parallelism examples
\* each, every example is in exactly one of them, and micro-step t (from 0) holds
\* the contiguous slice t*microbatch_size .. (t+1)*microbatch_size - 1 of the batch.
C15_ContiguousMicrobatches ==
    (a_pc \in {"vmap", "reduce", "returned"}) =>
        LET B == Len(a_args.examples)
            mb == a_args.data_axis_size * a_args.per_device_parallelism
            n == B \div mb IN
        /\ \A m \in 1..Len(a_inputs.keys) : Len(a_inputs.keys[m]) = n
        /\ \A t \in 1..n : Cardinality(MicroStepPositions(t)) = mb
        /\ \A i \in 1..B : Cardinality({t \in 1..n : i \in MicroStepPositions(t)}) = 1
        /\ \A t \in 1..n : MicroStepPositions(t) = ((t - 1) * mb + 1)..(t * mb)

\* the scope events of a trace are properly nested: every exit leaves the scope
\* entered last and not yet left; open is the stack of scopes entered so far
RECURSIVE ProperlyNested(_, _, _)
ProperlyNested(trace, i, open) ==
    IF i > Len(trace) THEN TRUE
    ELSE IF trace[i][1] = "enter"
         THEN ProperlyNested(trace, i + 1, Append(open, trace[i][2]))
         ELSE /\ open # <<>>
              /\ open[Len(open)] = trace[i][2]
              /\ ProperlyNested(trace, i + 1, SubSeq(open, 1, Len(open) - 1))

\* C16: every invocation of f runs under the compute mapping (not merged with the
\* mapping active at entry) plus microbatch -> data; the means are produced under
\* the parameter mapping; scopes are entered and left properly nested; and on
\* every exit path (return, exception of f, failed assertion) the active mapping
\* is the one that was active at entry.
C16_MappingScopes ==
    /\ a_ctx.at_f \subseteq {Merge(compute_axis_mapping, MicrobatchMapping)}
    /\ a_ctx.at_mean \subseteq {parameter_axis_mapping}
    /\ (a_calls # <<>>) => a_ctx.at_f # {}
    /\ (a_pc = "returned") => a_ctx.at_mean # {}
    /\ ProperlyNested(a_ctx.trace, 1, <<>>)
    /\ (a_pc \in {"returned", "Exception", "AssertionError"}) =>
          /\ a_ctx.stack = <<a_ctx.entry>>
          /\ Active(a_ctx) = a_ctx.entry

C16_Witness ==
    /\ a_pc = "Exception"
    /\ a_args.f = "raise"
    /\ a_ctx.entry # NoMapping
    /\ Len(a_ctx.trace) = 4
    /\ a_ctx.at_f # {}
    /\ Active(a_ctx) = a_ctx.entry

\* C17: at every step boundary the model the loop holds, and every model written to
\* a StepInfo or a checkpoint, is in the parameter dtype, however it was
\* initialized.
C17_ModelInParameterDtype ==
    /\ (mem.pc \notin {"idle", "start", "load", "init"}) => mem.model.dtype = "parameter"
    /\ \A j \in 1..Len(log.hook_log) : log.hook_log[j].info.model.dtype = "parameter"
    /\ \A j \in 1..Len(log.saves) : log.saves[j].info.model.dtype = "parameter"
    /\ (disk # None) => disk[1].model.dtype = "parameter"

\* the registration index of a hook of the run
HookIndex(fn) == CHOOSE k \in 1..Len(mem.hooks) : mem.hooks[k].fn = fn

\* C18: once the step computation or a hook has raised during step i of train_lm,
\* the run has left the loop for good: no hook registered after the failing one
\* has run for step i, no step after i is executed, and neither the forced final
\* dispatch nor the forced final checkpoint takes place.
C18_FailurePropagates ==
    (IsTrainLm /\ log.failed # None) =>
        LET fl == log.failed[1] IN
        /\ mem.pc = "Exception"
        /\ mem.step = Some(fl.step)
        /\ \A j \in 1..Len(log.hook_log) :
              log.hook_log[j].step = fl.step => HookIndex(log.hook_log[j].fn) <= fl.k
        /\ \A j \in 1..Len(log.step_log) : log.step_log[j].step <= fl.step
        /\ \A j \in 1..Len(log.hook_log) : log.hook_log[j].step <= fl.step
        /\ Count(log.dispatches, LAMBDA d : d.force) = 0
        /\ Count(log.saves, LAMBDA sv : sv.force) = 0
        /\ Count(log.hook_log, LAMBDA c : c.via = "direct") = 0

C18_Witness ==
    /\ IsTrainLm
    /\ mem.pc = "Exception"
    /\ log.failed # None
    /\ log.failed[1].step = 1
    /\ log.failed[1].k = 4
    /\ Len(log.step_log) = 2
    /\ Count(log.hook_log, LAMBDA c : c.step = 1) = 4
    /\ cfg.num_train_steps = 3

\* the training key main derives from the seed
SeedTrainingKey == split(PRNGKey(cfg.seed), 4)[4]

\* C19: the initial state of train_lm has one source.  With a checkpoint, model,
\* optimizer state and training key are the restored ones and no initialisation
\* runs, the pretrained loader included; without one, the model is initialised
\* once, from the pretrained checkpoint when initialize_from_hf is set and from
\* scratch otherwise, the optimizer state is initialised from that model, the
\* training key is the one of the seed and the first step is 0.
C19_SingleSourceOfInitialState ==
    (IsTrainLm /\ mem.pc \notin {"start", "load", "init"}) =>
        IF mem.resume_step # None
        THEN /\ log.inits = <<>>
             /\ mem.pc \in {"hooks", "seek"} =>
                   /\ disk # None
                   /\ mem.model = disk[1].model
                   /\ mem.opt_state = disk[1].opt_state
                   /\ mem.training_key = disk[1].training_key
                   /\ mem.resume_step = Some(disk[1].step)
        ELSE /\ log.inits = <<InitSource(cfg)>>
             /\ mem.pc \in {"hooks", "seek"} =>
                   /\ mem.model.init = IF cfg.initialize_from_hf
                                       THEN <<"load_pretrained">>
                                       ELSE <<"build", split(PRNGKey(cfg.seed), 4)[3]>>
                   /\ mem.model.upd = <<>>
                   /\ mem.opt_state = OptInit(mem.model)
                   /\ mem.training_key = SeedTrainingKey
             /\ mem.pc \notin {"hooks", "seek"} => mem.initial_step = 0

C19_Witness ==
    /\ IsTrainLm
    /\ mem.pc = "seek"
    /\ mem.resume_step = Some(1)
    /\ cfg.initialize_from_hf
    /\ log.inits = <<>>
    /\ mem.training_key # SeedTrainingKey
    /\ Len(disk[1].model.upd) = 2

RECURSIVE SumOf(_, _)
SumOf(xs, i) == IF i > Len(xs) THEN 0 ELSE xs[i] + SumOf(xs, i + 1)

\* C20: a fresh RunningMean has count 0 and mean 0, and after update(x_1), ...,
\* update(x_n), n >= 1, count is n and mean is (x_1 + ... + x_n) / n exactly.
C20_RunningMean ==
    /\ running_mean.count = Len(rm_xs)
    /\ rm_xs = <<>> => running_mean.mean = <<0, 1>>
    /\ rm_xs # <<>> => running_mean.mean = Rat(SumOf(rm_xs, 1), Len(rm_xs))

C20_Witness ==
    /\ rm_xs = <<3, 0 - 2, 1>>
    /\ running_mean.count = 3
    /\ running_mean.mean = <<2, 3>>

\* the StepInfos handed out by the forced dispatch, the direct checkpointer call
\* and the forced saves
ForcedInfos ==
    {log.dispatches[j].info : j \in {i \in 1..Len(log.dispatches) : log.dispatches[i].force}}
    \cup {log.hook_log[j].info : j \in {i \in 1..Len(log.hook_log) :
                                           log.hook_log[i].via = "direct"}}
    \cup {log.saves[j].info : j \in {i \in 1..Len(log.saves) : log.saves[i].force}}

\* the state a launch of train_lm starts its loop with
StartsFrom(info) ==
    IF log.restored # None
    THEN /\ info.model = log.restored[1].model
         /\ info.opt_state = log.restored[1].opt_state
         /\ info.training_key = log.restored[1].training_key
    ELSE /\ info.model.upd = <<>>
         /\ info.opt_state = OptInit(info.model)
         /\ info.training_key = SeedTrainingKey

\* what a regular StepInfo and the final one have in common
SameState(a, b) ==
    /\ a.model = b.model
    /\ a.opt_state = b.opt_state
    /\ a.loss = b.loss
    /\ a.training_key = b.training_key

\* C21: the final forced StepInfo of train_lm has index num_train_steps and the
\* model, optimizer state, loss and training key of the StepInfo of the last
\* executed step, whose index is num_train_steps - 1, or the initial or restored
\* state and loss 0 when the launch executed no step; a launch that restored the
\* final checkpoint, with the same num_train_steps, executes no step.
C21_FinalStepInfo ==
    /\ (IsTrainLm /\ mem.pc \in {"final_checkpoint", "done"}) =>
          /\ Count(log.dispatches, LAMBDA d : d.force) = 1
          /\ mem.pc = "done" => Count(log.hook_log, LAMBDA c : c.via = "direct") = 1
          /\ \A info \in ForcedInfos :
                /\ info.step = cfg.num_train_steps
                /\ IF log.step_log = <<>>
                   THEN info.loss = 0 /\ StartsFrom(info)
                   ELSE LET e == log.step_log[Len(log.step_log)] IN
                        /\ e.step = cfg.num_train_steps - 1
                        /\ \E j \in 1..Len(log.hook_log) : log.hook_log[j].step = e.step
                        /\ \A j \in 1..Len(log.hook_log) :
                              log.hook_log[j].step = e.step =>
                                  SameState(log.hook_log[j].info, info)
    /\ (IsTrainLm /\ log.restored # None) =>
          (log.restored[1].step = cfg.num_train_steps =>
              /\ log.step_log = <<>>
              /\ mem.step = None
              /\ mem.pc \notin {"next", "split", "accumulate", "update", "run_hooks",
                                 "Exception"})

C21_Witness ==
    /\ IsTrainLm
    /\ mem.pc = "done"
    /\ cfg.num_train_steps = 2
    /\ log.restored # None
    /\ log.restored[1].step = 2
    /\ Len(log.restored[1].model.upd) = 2
    /\ log.prior_steps = {0, 1}
    /\ log.step_log = <<>>
    /\ disk # None
    /\ disk[1].step = 2
    /\ disk[1].model = log.restored[1].model

\* how many of the first n executed steps were served from dataset d
ServedFrom(d, n) == Count(SubSeq(log.step_log, 1, n), LAMBDA e : e.batch[1] = d)

\* the step in progress has fetched its batch, from dataset d
InFlightFrom(d) ==
    IF mem.pc \in {"split", "train_step", "run_hooks"} /\ mem.example[1] = d THEN 1 ELSE 0

\* C22: in phase 2 of the two-phase loop every step consumes one batch, chosen by
\* that step's own draw between the instruction dataset and dataset A; dataset-A
\* batches come from the cyclic iterator of phase 1, read on from its position, so
\* the dataset-A batches consumed are the phase-1 steps plus the phase-2 steps
\* that drew dataset A, and no position of a cycle is served to two steps.
C22_PhaseTwoBatches ==
    (IsInstructionTune /\ mem.pc \notin {"start", "hooks"}) =>
        LET U == Ul2rSteps(cfg)
            L == Len(log.step_log) IN
        /\ \A j \in 1..L :
              LET e == log.step_log[j] IN
              /\ e.step = j - 1
              /\ IF e.step < U
                 THEN e.batch = CycleBatch(e.step)
                 ELSE IF cfg.prng[e.step - U + 1] < cfg.instruction_weight
                      THEN e.batch = <<"B", ServedFrom("B", j - 1)>>
                      ELSE e.batch = CycleBatch(ServedFrom("A", j - 1))
        /\ mem.iter_data = ServedFrom("A", L) + InFlightFrom("A")
        /\ ServedFrom("A", L)
              = Count(log.step_log, LAMBDA e : e.step < U)
                + Count(log.step_log,
                        LAMBDA e : /\ e.step >= U
                                   /\ cfg.prng[e.step - U + 1] >= cfg.instruction_weight)
        /\ mem.phase = 2 =>
              /\ mem.prng_n = (L - U) + (IF mem.pc \in {"split", "train_step", "run_hooks",
                                                       "StopIteration"} THEN 1 ELSE 0)
              /\ mem.iter_itune = ServedFrom("B", L) + InFlightFrom("B")
        /\ \A i, j \in 1..L :
              (/\ i < j
               /\ log.step_log[i].batch[1] = "A"
               /\ log.step_log[j].batch[1] = "A"
               /\ ServedFrom("A", j - 1) - ServedFrom("A", i - 1) < DataLen)
              => log.step_log[i].batch # log.step_log[j].batch

C22_Witness ==
    /\ IsInstructionTune
    /\ mem.pc = "done"
    /\ cfg.num_train_steps = 4
    /\ Ul2rSteps(cfg) = 2
    /\ Len(log.step_log) = 4
    /\ log.step_log[3].batch = <<"A", 2>>
    /\ log.step_log[4].batch = <<"B", 0>>
    /\ mem.iter_data = 3
    /\ mem.prng_n = 2

\* the saves under the tag of the final save
FinalSaves == SelectSeq(log.saves, LAMBDA sv : sv.tag = FinalTag)

\* C23: a run of the two-phase loop that reaches its end saves under the tag
\* "instruction_tuned" once, after the last step, exactly when a step was executed,
\* and the save carries the index, model, optimizer state, loss and key of the
\* StepInfo of the last executed step; with num_train_steps = 0 the run ends in an
\* error at the final save and writes no checkpoint.
C23_FinalSave ==
    IsInstructionTune =>
        /\ Len(FinalSaves) = (IF mem.pc = "done" THEN 1 ELSE 0)
        /\ mem.pc \in {"done", "NameError"} =>
              /\ Len(log.step_log) = cfg.num_train_steps
              /\ mem.pc = "done" <=> log.step_log # <<>>
        /\ mem.pc = "done" =>
              LET sv == log.saves[Len(log.saves)]
                  e == log.step_log[Len(log.step_log)] IN
              /\ sv.tag = FinalTag
              /\ sv.force
              /\ sv.info.step = e.step
              /\ sv.info.step = cfg.num_train_steps - 1
              /\ \E j \in 1..Len(log.dispatches) :
                    /\ log.dispatches[j].step = e.step
                    /\ log.dispatches[j].info = sv.info
              /\ disk = Some(Snapshot(sv.info))
        /\ cfg.num_train_steps = 0 =>
              /\ mem.pc # "done"
              /\ mem.pc \notin {"start", "hooks", "for", "ul2r_finished", "final"}
                    => mem.pc = "NameError"
              /\ log.saves = <<>>
              /\ disk = None

C23_Witness ==
    /\ IsInstructionTune
    /\ mem.pc = "done"
    /\ cfg.num_train_steps = 2
    /\ Ul2rSteps(cfg) = 1
    /\ Len(log.step_log) = 2
    /\ Len(FinalSaves) = 1
    /\ FinalSaves[1].info.step = 1
    /\ Len(FinalSaves[1].info.model.upd) = 2
    /\ \E i \in 1..Len(log.saves) : log.saves[i].tag = PhaseBoundaryTag

====
